---- MODULE Spec2Model ----
(***************************************************************************)
(* keyboard-chords: a Chord is an ordered list of key Presses; a playback  *)
(* run expands the Presses into timed key-down / key-up events, groups     *)
(* them into Dispatch Batches and hands the batches to the Transmission    *)
(* Sink in time order.                                                     *)
(*                                                                         *)
(* Press, Code and the Chord builder are modelled from src/src/key.rs and  *)
(* src/src/lib.rs.  The scheduler behind Chord::play (win::send_inputs) is *)
(* not among the source files; it is modelled from spec.md section 4.3.    *)
(* Times are whole milliseconds.                                           *)
(***************************************************************************)
EXTENDS Integers, Sequences, FiniteSets, TLC

VARIABLES keys, pc, batches, next, log, clock, start, failed, result, cut, last

vars == <<keys, pc, batches, next, log, clock, start, failed, result, cut, last>>

(* ------------------------------ bounds -------------------------------- *)

\* Largest number of Presses a Chord holds in the model.
MaxKeys == 2

\* Largest count handed to push_n.
MaxCount == 2

\* The lateness (ms) with which a sleep wakes up after its deadline.
Lateness == {0, 1}

(* ------------------------------ Option -------------------------------- *)

\* Option<T>: None is the empty tuple, Some(x) the one-element tuple.
None == <<>>

Some(x) == <<x>>

is_some(o) == o # None

unwrap_or(o, d) == IF o = None THEN d ELSE o[1]

(* ------------------------------ key.rs -------------------------------- *)

U16 == 65536

UnicodeKey(k) == [tag |-> "UnicodeKey", k |-> k % U16]

VirtualKey(k) == [tag |-> "VirtualKey", k |-> k % U16]

\* Press::new: a unicode press, no delay, no duration.
PressNew(k) == [code |-> UnicodeKey(k), delay |-> None, duration |-> None]

as_unicode(p) ==
    IF p.code.tag = "UnicodeKey" THEN p
    ELSE [p EXCEPT !.code = UnicodeKey(p.code.k)]

as_virtual_fresh(p) ==
    [code |-> VirtualKey(p.code.k), delay |-> None, duration |-> None]

as_virtual(p) ==
    IF p.code.tag = "UnicodeKey" THEN [p EXCEPT !.code = VirtualKey(p.code.k)]
    ELSE p

with_delay(p, d) == [p EXCEPT !.delay = Some(d)]

with_duration(p, d) == [p EXCEPT !.duration = Some(d)]

\* impl<T: Into<u16>> From<T> for Press
PressFromU16(k) == PressNew(k)

\* impl From<VirtualKey> for Press
PressFromVirtualKey(vk) == as_virtual(PressNew(vk))

(* ------------------------------ inputs -------------------------------- *)

\* Virtual key codes used as inputs: UP and RIGHT.
VK_UP == 38

VK_RIGHT == 39

\* Delays and durations (ms) a caller attaches to a Press.
Delays == {0, 500}

Durations == {0, 500, 3000}

\* Lead times (ms) handed to play_after.
Leads == {500}

\* The Presses a caller builds with the Press builder methods.
TimedPresses(base) ==
    LET ds == {base} \cup {with_delay(base, d) : d \in Delays}
    IN  ds \cup {with_duration(p, d) : p \in ds, d \in Durations}

\* UP with every timing; RIGHT plain and held for 500 ms from time zero (the
\* second key of the crate documentation's example).
InputPresses ==
    TimedPresses(PressFromVirtualKey(VK_UP))
        \cup {PressFromVirtualKey(VK_RIGHT),
              with_duration(with_delay(PressFromVirtualKey(VK_RIGHT), 0), 500)}

\* Texts handed to push_str, as sequences of Unicode scalar values: "", "Hi".
Texts == {<<>>, <<72, 105>>}

\* Ranges start..end handed to typewriter: 499..498 (inverted), 499..499
\* (empty), 499..500 and 499..501.
Ranges == {[start |-> 499, end |-> e] : e \in 498..501}

(* ------------------------------ lib.rs -------------------------------- *)

\* str::encode_utf16 of one scalar value: one unit, or a surrogate pair.
Utf16Units(cp) ==
    IF cp < 65536 THEN <<cp>>
    ELSE <<55296 + ((cp - 65536) \div 1024), 56320 + ((cp - 65536) % 1024)>>

RECURSIVE encode_utf16(_)
encode_utf16(text) ==
    IF text = <<>> THEN <<>>
    ELSE Utf16Units(Head(text)) \o encode_utf16(Tail(text))

\* Chord::new
ChordNew == <<>>

\* Chord::push
push(ks, p) == Append(ks, p)

\* Chord::push_n
RECURSIVE push_n_inclusive(_, _, _)
push_n_inclusive(ks, p, count) ==
    IF count = 0 THEN push(ks, p)
    ELSE push_n_inclusive(push(ks, p), p, count - 1)

RECURSIVE push_n(_, _, _)

push_n(ks, p, count) ==
    IF count = 0 THEN ks ELSE push_n(push(ks, p), p, count - 1)

\* Chord::push_str
RECURSIVE PushUnits(_, _)
PushUnits(ks, units) ==
    IF units = <<>> THEN ks
    ELSE PushUnits(Append(ks, PressFromU16(Head(units))), Tail(units))

push_str_chars(ks, text) == PushUnits(ks, [j \in 1..Len(text) |-> text[j] % U16])

push_str(ks, text) == PushUnits(ks, encode_utf16(text))

\* rng.random_range(range): the values a draw can return.
random_range_inclusive(range) == range.start .. range.end

random_range(range) == range.start .. (range.end - 1)

TypewriterBody_fresh(p, m) ==
    IF is_some(p.delay) THEN p ELSE [p EXCEPT !.delay = Some(m), !.duration = None]

\* Chord::typewriter, the body of its loop for one Press and the draw m: a
\* Press whose delay is set is skipped.
TypewriterBody(p, m) ==
    IF is_some(p.delay) THEN p ELSE [p EXCEPT !.delay = Some(m)]

\* Chord::typewriter: the loop over the Presses, from Press i on, each Press
\* with a draw of its own.  Each outcome is the Chord as the call leaves it,
\* and whether the call panicked (random_range panics on an empty range).
RECURSIVE TypewriterLoop(_, _, _)
TypewriterLoop(ks, i, range) ==
    IF i > Len(ks) THEN {[keys |-> ks, panicked |-> FALSE]}
    ELSE IF is_some(ks[i].delay) THEN TypewriterLoop(ks, i + 1, range)
    ELSE IF random_range(range) = {} THEN {[keys |-> ks, panicked |-> TRUE]}
    ELSE UNION {TypewriterLoop([ks EXCEPT ![i] = TypewriterBody(ks[i], m)],
                               i + 1, range) : m \in random_range(range)}

typewriter_overwrite(ks, range) ==
    TypewriterLoop([i \in 1..Len(ks) |-> [ks[i] EXCEPT !.delay = None]], 1, range)

typewriter_one_draw(ks, range) ==
    IF random_range(range) = {} THEN {[keys |-> ks, panicked |-> TRUE]}
    ELSE {[keys |-> [i \in 1..Len(ks) |-> TypewriterBody(ks[i], m)],
           panicked |-> FALSE] : m \in random_range(range)}

typewriter(ks, range) == TypewriterLoop(ks, 1, range)

(* --------------------- scheduler (spec.md 4.3) ------------------------ *)

KeyDown == "KeyDown"

KeyUp == "KeyUp"

ExpandPress_up_first(p, i) ==
    LET down_at == unwrap_or(p.delay, 0)
        up_at   == down_at + unwrap_or(p.duration, 0)
    IN  << [code |-> p.code, action |-> KeyUp,   at |-> up_at,   src |-> i],
           [code |-> p.code, action |-> KeyDown, at |-> down_at, src |-> i] >>

\* Expansion of one Press: its KeyDown at down_at and its KeyUp at
\* down_at + duration (at down_at itself when the duration is unset).
\* src is the position of the Press in the Chord.
ExpandPress(p, i) ==
    LET down_at == unwrap_or(p.delay, 0)
        up_at   == down_at + unwrap_or(p.duration, 0)
    IN  << [code |-> p.code, action |-> KeyDown, at |-> down_at, src |-> i],
           [code |-> p.code, action |-> KeyUp,   at |-> up_at,   src |-> i] >>

RECURSIVE ExpandFrom(_, _)
ExpandFrom(ks, i) ==
    IF i > Len(ks) THEN <<>>
    ELSE ExpandPress(ks[i], i) \o ExpandFrom(ks, i + 1)

Expand(ks) == ExpandFrom(ks, 1)

RECURSIVE SortTimes_descending(_)
SortTimes_descending(S) ==
    IF S = {} THEN <<>>
    ELSE LET m == CHOOSE x \in S : \A y \in S : x >= y
         IN  <<m>> \o SortTimes_descending(S \ {m})

RECURSIVE SortTimes(_)
SortTimes(S) ==
    IF S = {} THEN <<>>
    ELSE LET m == CHOOSE x \in S : \A y \in S : x <= y
         IN  <<m>> \o SortTimes(S \ {m})

\* What the Sink is handed for one event: the code and the action (src is
\* kept to tell the Presses of a Chord apart).
Resolved(e) == [code |-> e.code, action |-> e.action, src |-> e.src]

ResolveAll(es) == [j \in 1..Len(es) |-> Resolved(es[j])]

BatchAt_downs_first(evs, t) ==
    [at |-> t,
     events |-> ResolveAll(
        SelectSeq(evs, LAMBDA e : e.at = t /\ e.action = KeyDown)
            \o SelectSeq(evs, LAMBDA e : e.at = t /\ e.action = KeyUp))]

\* Batching: the events with the same at, in expansion (insertion) order.
BatchAt(evs, t) ==
    [at |-> t, events |-> ResolveAll(SelectSeq(evs, LAMBDA e : e.at = t))]

Schedule_unmerged(ks) ==
    LET evs   == Expand(ks)
        times == SortTimes({evs[j].at : j \in 1..Len(evs)})
        RECURSIVE Split(_)
        Split(b) ==
            IF b > Len(times) THEN <<>>
            ELSE LET es == BatchAt(evs, times[b]).events
                 IN  [j \in 1..Len(es) |-> [at |-> times[b], events |-> <<es[j]>>]]
                        \o Split(b + 1)
    IN  Split(1)

\* The Dispatch Batches of a Chord, by ascending at.
Schedule(ks) ==
    LET evs   == Expand(ks)
        times == SortTimes({evs[j].at : j \in 1..Len(evs)})
    IN  [b \in 1..Len(times) |-> BatchAt(evs, times[b])]

PlayInput_skip_first(ks) == IF ks = <<>> THEN ks ELSE Tail(ks)

PlayInput_reversed(ks) == [i \in 1..Len(ks) |-> ks[Len(ks) + 1 - i]]

PlayInput_twice(ks) == ks \o ks

\* Chord::play hands the Chord's keys to win::send_inputs.
PlayInput(ks) == ks

\* Chord::play returns the unit value, whatever the Sink reported.
PlayResult(sinkFailed) == "unit"

(* ------------------------------ state --------------------------------- *)

\* keys     the Chord's Presses (Chord.keys)
\* pc       "build": the caller is building the Chord; "lead": play_after
\*          sleeps its lead time; "playing": the playback loop is running,
\*          suspended before batch `next`; "done": playback returned;
\*          "aborted": the playback future was dropped; "panicked":
\*          typewriter panicked
\* batches  the Dispatch Batches of the run, next the one to dispatch
\* log      the Sink calls made so far: the batch, and what the Sink reported
\* clock    time elapsed since the playback operation was called
\* start    the clock value at which the playback loop started
\* failed   the Sink has reported a failure in this run
\* result   what the playback operation returned to its caller
\* cut      the number of Sink calls made when playback was aborted, or -1
\* last     the operation last applied, its argument and the Presses before it
Init ==
    /\ keys = ChordNew
    /\ pc = "build"
    /\ batches = <<>>
    /\ next = 1
    /\ log = <<>>
    /\ clock = 0
    /\ start = 0
    /\ failed = FALSE
    /\ result = "pending"
    /\ cut = -1
    /\ last = [op |-> "new", pre |-> <<>>, arg |-> <<>>]

Building == pc = "build"

RunVars == <<batches, next, log, clock, start, failed, result, cut>>

Push(p) ==
    /\ Building
    /\ keys' = push(keys, p)
    /\ last' = [op |-> "push", pre |-> keys, arg |-> <<>>]
    /\ UNCHANGED <<pc, RunVars>>

PushN(p, count) ==
    /\ Building
    /\ keys' = push_n(keys, p, count)
    /\ last' = [op |-> "push_n", pre |-> keys, arg |-> [press |-> p, count |-> count]]
    /\ UNCHANGED <<pc, RunVars>>

PushStr(text) ==
    /\ Building
    /\ keys' = push_str(keys, text)
    /\ last' = [op |-> "push_str", pre |-> keys, arg |-> text]
    /\ UNCHANGED <<pc, RunVars>>

Typewriter(range) ==
    /\ Building
    /\ \E out \in typewriter(keys, range) :
          /\ keys' = out.keys
          /\ pc' = IF out.panicked THEN "panicked" ELSE pc
    /\ last' = [op |-> "typewriter", pre |-> keys, arg |-> range]
    /\ UNCHANGED RunVars

WakeTimes_early(deadline) == {clock}

\* The clock values at which a sleep until `deadline` can wake up.
WakeTimes(deadline) ==
    LET t == IF clock > deadline THEN clock ELSE deadline
    IN  {t + late : late \in Lateness}

\* Chord::play: the scheduler expands and batches the whole Chord.
Play ==
    /\ Building
    /\ pc' = "playing"
    /\ batches' = Schedule(PlayInput(keys))
    /\ next' = 1
    /\ start' = clock
    /\ last' = [op |-> "play", pre |-> keys, arg |-> <<>>]
    /\ UNCHANGED <<keys, log, clock, failed, result, cut>>

\* Chord::play_after: the call, up to its sleep.
PlayAfter(lead) ==
    /\ Building
    /\ pc' = "lead"
    /\ last' = [op |-> "play_after", pre |-> keys, arg |-> lead]
    /\ UNCHANGED <<keys, RunVars>>

LeadElapsed_no_sleep ==
    /\ pc = "lead"
    /\ start' = clock
    /\ pc' = "playing"
    /\ batches' = Schedule(PlayInput(keys))
    /\ next' = 1
    /\ UNCHANGED <<keys, log, clock, failed, result, cut, last>>

\* Chord::play_after: the sleep is over and play starts.
LeadElapsed ==
    /\ pc = "lead"
    /\ clock' \in WakeTimes(last.arg)
    /\ start' = clock'
    /\ pc' = "playing"
    /\ batches' = Schedule(PlayInput(keys))
    /\ next' = 1
    /\ UNCHANGED <<keys, log, failed, result, cut, last>>

Dispatch_continue(ok) ==
    /\ pc = "playing"
    /\ next <= Len(batches)
    /\ clock' \in WakeTimes(start + batches[next].at)
    /\ log' = Append(log, [at |-> batches[next].at,
                           events |-> batches[next].events,
                           ok |-> ok])
    /\ next' = next + 1
    /\ failed' = (failed \/ ~ok)
    /\ UNCHANGED <<keys, pc, batches, start, result, cut, last>>

\* The playback loop: wait until the batch's time, hand it to the Sink.
\* A Sink failure ends the loop.
Dispatch(ok) ==
    /\ pc = "playing"
    /\ ~failed
    /\ next <= Len(batches)
    /\ clock' \in WakeTimes(start + batches[next].at)
    /\ log' = Append(log, [at |-> batches[next].at,
                           events |-> batches[next].events,
                           ok |-> ok])
    /\ next' = next + 1
    /\ failed' = ~ok
    /\ UNCHANGED <<keys, pc, batches, start, result, cut, last>>

\* Playback returns: every batch is dispatched, or the Sink failed.
Return ==
    /\ pc = "playing"
    /\ failed \/ next > Len(batches)
    /\ pc' = "done"
    /\ result' = PlayResult(failed)
    /\ UNCHANGED <<keys, batches, next, log, clock, start, failed, cut, last>>

AbortLead_Detached ==
    /\ pc = "lead"
    /\ cut' = Len(log)
    /\ UNCHANGED <<keys, pc, batches, next, log, clock, start, failed, result, last>>

\* The play_after future is dropped while it sleeps its lead time.
AbortLead ==
    /\ pc = "lead"
    /\ pc' = "aborted"
    /\ cut' = Len(log)
    /\ UNCHANGED <<keys, batches, next, log, clock, start, failed, result, last>>

\* The playback future is dropped while it waits for its next batch.
AbortWait ==
    /\ pc = "playing"
    /\ ~failed
    /\ next <= Len(batches)
    /\ pc' = "aborted"
    /\ cut' = Len(log)
    /\ UNCHANGED <<keys, batches, next, log, clock, start, failed, result, last>>

\* The caller builds a Chord of at most MaxKeys Presses and plays it.
Next ==
    \/ \E p \in InputPresses : Len(keys) < MaxKeys /\ Push(p)
    \/ \E p \in InputPresses, count \in 0..MaxCount :
          Len(keys) + count <= MaxKeys /\ PushN(p, count)
    \/ \E text \in Texts :
          Len(keys) + Len(encode_utf16(text)) <= MaxKeys /\ PushStr(text)
    \/ \E range \in Ranges : Typewriter(range)
    \/ Play
    \/ \E lead \in Leads : PlayAfter(lead)
    \/ LeadElapsed
    \/ \E ok \in BOOLEAN : Dispatch(ok)
    \/ Return
    \/ AbortLead
    \/ AbortWait

Spec == Init /\ [][Next]_vars

\* Texts for push_str with a character outside the Basic Multilingual
\* Plane: "", "H", "Hi" and U+1F600.
TextsWide == {<<>>, <<72>>, <<72, 105>>, <<128512>>}

\* The caller builds a Chord from Presses and texts and plays it, with no
\* typewriter call.
TextNext ==
    \/ \E p \in InputPresses : Len(keys) < MaxKeys /\ Push(p)
    \/ \E text \in TextsWide :
          Len(keys) + Len(encode_utf16(text)) <= MaxKeys /\ PushStr(text)
    \/ Play
    \/ \E ok \in BOOLEAN : Dispatch(ok)
    \/ Return

SpecText == Init /\ [][TextNext]_vars

\* Presses of the playbacks followed to their end: UP plain, delayed, tapped
\* (duration 0) and held; RIGHT held for 500 ms from time zero.
LivePresses ==
    LET up == PressFromVirtualKey(VK_UP)
    IN  {up, with_delay(up, 500), with_duration(up, 0), with_duration(up, 3000),
         with_duration(with_delay(PressFromVirtualKey(VK_RIGHT), 0), 500)}

\* A playback whose Sink never fails and whose future is never dropped.
LiveNext ==
    \/ \E p \in LivePresses : Len(keys) < MaxKeys /\ Push(p)
    \/ Play
    \/ \E lead \in Leads : PlayAfter(lead)
    \/ LeadElapsed
    \/ Dispatch(TRUE)
    \/ Return

\* The clock keeps advancing, so every sleep ends, and the task is polled
\* until it returns.
SpecLive ==
    /\ Init
    /\ [][LiveNext]_vars
    /\ WF_vars(LeadElapsed)
    /\ WF_vars(Dispatch(TRUE))
    /\ WF_vars(Return)

\* 16-bit codes handed to Press::new: Enter, 'a', the largest code.
PressCodes == {13, 97, 65535}

\* A caller builds one Press with the Press methods, as in
\* Press::from(..).with_delay(..); keys holds the Press being built.
PressStep(op, arg, p) ==
    /\ Building
    /\ keys' = <<p>>
    /\ last' = [op |-> op, pre |-> keys, arg |-> arg]
    /\ UNCHANGED <<pc, RunVars>>

PressNext ==
    \/ \E k \in PressCodes : keys = <<>> /\ PressStep("Press::new", k, PressNew(k))
    \/ \E k \in PressCodes :
          keys = <<>> /\ PressStep("Press::from", k, PressFromVirtualKey(k))
    \/ keys # <<>> /\ PressStep("as_unicode", <<>>, as_unicode(keys[1]))
    \/ keys # <<>> /\ PressStep("as_virtual", <<>>, as_virtual(keys[1]))
    \/ \E d \in Delays :
          keys # <<>> /\ PressStep("with_delay", d, with_delay(keys[1], d))
    \/ \E d \in Durations :
          keys # <<>> /\ PressStep("with_duration", d, with_duration(keys[1], d))

SpecPress == Init /\ [][PressNext]_vars

(* ------------------------------ main.rs ------------------------------- *)

VK_BACK == 8

VK_ENTER == 13

\* "Hello, wro", "World" and '!' as Unicode scalar values.
DemoHello == <<72, 101, 108, 108, 111, 44, 32, 119, 114, 111>>

DemoWorld == <<87, 111, 114, 108, 100>>

DemoBang == 33

DemoRange == [start |-> 25, end |-> 175]

DemoLead == 500

\* Four draws of the twenty random delays of typewriter(25..175): every draw
\* the smallest value, every draw the largest, draws that grow with the
\* position of the Press, draws that shrink with it.
DemoDraws ==
    { [i \in 1..20 |-> 25], [i \in 1..20 |-> 174],
      [i \in 1..20 |-> 25 + i], [i \in 1..20 |-> 174 - i] }

\* chord.typewriter(25..175) with one of the draws of DemoDraws.
DemoTypewriter ==
    /\ Building
    /\ \E f \in DemoDraws :
          /\ \A i \in 1..Len(keys) : f[i] \in random_range(DemoRange)
          /\ keys' = [i \in 1..Len(keys) |-> TypewriterBody(keys[i], f[i])]
    /\ last' = [op |-> "typewriter", pre |-> keys, arg |-> DemoRange]
    /\ UNCHANGED <<pc, RunVars>>

\* main: the statements in program order, then the spawned playback.
DemoNext ==
    \/ last.op = "new" /\ PushStr(DemoHello)
    \/ last.op = "push_str" /\ Len(keys) = 10
          /\ PushN(PressFromVirtualKey(VK_BACK), 3)
    \/ last.op = "push_n" /\ PushStr(DemoWorld)
    \/ last.op = "push_str" /\ Len(keys) = 18
          /\ Push(with_delay(PressFromU16(DemoBang), 500))
    \/ last.op = "push" /\ Len(keys) = 19 /\ Push(PressFromVirtualKey(VK_ENTER))
    \/ last.op = "push" /\ Len(keys) = 20 /\ DemoTypewriter
    \/ last.op = "typewriter" /\ PlayAfter(DemoLead)
    \/ LeadElapsed
    \/ \E ok \in BOOLEAN : Dispatch(ok)
    \/ Return

SpecDemo == Init /\ [][DemoNext]_vars

(* ------------------------------ claims -------------------------------- *)

\* The times a Press asks for, read off the Chord.
DownAt(p) == unwrap_or(p.delay, 0)

UpAt(p) == DownAt(p) + unwrap_or(p.duration, 0)

\* The event the Sink receives for Press i of the Chord.
Ev(i, action) == [code |-> keys[i].code, action |-> action, src |-> i]

\* The places <<call, position>> of the log that hold event e.
Places(e) ==
    UNION {{<<b, j>> : j \in {k \in 1..Len(log[b].events) : log[b].events[k] = e}} :
            b \in 1..Len(log)}

\* Playback returned and the Sink never failed.
Completed == pc = "done" /\ ~failed

\* The log is the first Len(log) batches of the Chord's schedule.
LogIsPrefix ==
    log = <<>> \/
        LET sch == Schedule(keys)
        IN  /\ Len(log) <= Len(sch)
            /\ \A b \in 1..Len(log) :
                  /\ log[b].at = sch[b].at
                  /\ log[b].events = sch[b].events

\* C1: within one playback run the timestamps of the batches handed to the
\* Sink never decrease from one Sink call to a later one.
C1_MonotonicDispatch ==
    \A a, b \in 1..Len(log) : a < b => log[a].at <= log[b].at

\* A completed run of three or more batches whose first Press fires later
\* than its second.
C1_Witness ==
    /\ Completed
    /\ Len(keys) = 2
    /\ Len(log) >= 3
    /\ DownAt(keys[1]) > DownAt(keys[2])

\* C2: a Press with no duration has, in every batch that holds its KeyDown,
\* its KeyUp right behind it, and that batch carries the Press's delay (zero
\* if unset) as timestamp; in a completed run the Press has exactly one
\* KeyDown and exactly one KeyUp.
C2_AtomicPair ==
    \A i \in 1..Len(keys) :
        keys[i].duration = None =>
            /\ \A pl \in Places(Ev(i, KeyDown)) :
                  /\ log[pl[1]].at = DownAt(keys[i])
                  /\ pl[2] < Len(log[pl[1]].events)
                  /\ log[pl[1]].events[pl[2] + 1] = Ev(i, KeyUp)
            /\ Completed =>
                  /\ Cardinality(Places(Ev(i, KeyDown))) = 1
                  /\ Cardinality(Places(Ev(i, KeyUp))) = 1

\* A completed run in which a Press without duration shares its timestamp
\* with the other Press of the Chord.
C2_Witness ==
    /\ Completed
    /\ Len(keys) = 2
    /\ keys[2].duration = None
    /\ DownAt(keys[1]) = DownAt(keys[2])
    /\ Cardinality(Places(Ev(2, KeyDown))) = 1

\* C3: no two Sink calls of a run carry the same timestamp, no batch is
\* empty, and in a completed run every event of every Press is in the one
\* batch that carries its time.
C3_BatchMerging ==
    /\ \A a, b \in 1..Len(log) : a # b => log[a].at # log[b].at
    /\ \A b \in 1..Len(log) : Len(log[b].events) > 0
    /\ Completed =>
          \A i \in 1..Len(keys) :
              /\ \E pl \in Places(Ev(i, KeyDown)) : log[pl[1]].at = DownAt(keys[i])
              /\ \E pl \in Places(Ev(i, KeyUp)) : log[pl[1]].at = UpAt(keys[i])

\* A completed run in which the KeyUp of the first Press and the KeyDown of
\* the second fall on the same time, later than the first KeyDown.
C3_Witness ==
    /\ Completed
    /\ Len(keys) = 2
    /\ DownAt(keys[1]) < UpAt(keys[1])
    /\ UpAt(keys[1]) = DownAt(keys[2])
    /\ Len(log) = 2

\* The chord of the crate documentation: UP held for 3000 ms, RIGHT for 500 ms.
UpRightChord ==
    << with_duration(with_delay(PressFromVirtualKey(VK_UP), 0), 3000),
       with_duration(with_delay(PressFromVirtualKey(VK_RIGHT), 0), 500) >>

\* C4: in a completed run every Press has its one KeyDown in the batch at its
\* delay and its one KeyUp in the batch at delay + duration, wherever it
\* stands in the Chord; UpRightChord gives {UP-down, RIGHT-down} at 0,
\* {RIGHT-up} at 500, {UP-up} at 3000.
C4_IndependentTiming ==
    Completed =>
        /\ \A i \in 1..Len(keys) :
              /\ Cardinality(Places(Ev(i, KeyDown))) = 1
              /\ Cardinality(Places(Ev(i, KeyUp))) = 1
              /\ \A pl \in Places(Ev(i, KeyDown)) : log[pl[1]].at = DownAt(keys[i])
              /\ \A pl \in Places(Ev(i, KeyUp)) : log[pl[1]].at = UpAt(keys[i])
        /\ keys = UpRightChord =>
              log = << [at |-> 0, events |-> <<Ev(1, KeyDown), Ev(2, KeyDown)>>,
                        ok |-> TRUE],
                       [at |-> 500, events |-> <<Ev(2, KeyUp)>>, ok |-> TRUE],
                       [at |-> 3000, events |-> <<Ev(1, KeyUp)>>, ok |-> TRUE] >>

\* UpRightChord has been played to the end.
C4_Witness == Completed /\ keys = UpRightChord /\ Len(log) = 3

\* C5: only the last Sink call of a run can have failed, and the calls made
\* are the first batches of the schedule, each once: after a failure there is
\* no retry, no later batch and no compensating event.
C5_FailFast ==
    /\ LogIsPrefix
    /\ \A b \in 1..Len(log) : log[b].ok \/ b = Len(log)
    /\ failed <=> (log # <<>> /\ ~log[Len(log)].ok)

\* Playback has returned after a failed Sink call with batches left over.
C5_Witness ==
    /\ pc = "done"
    /\ failed
    /\ Len(log) < Len(batches)

\* C7: once playback is aborted after k Sink calls, the Sink calls made are
\* exactly the first k batches of the schedule, whole and once each.
C7_AbortSafety ==
    cut >= 0 =>
        /\ Len(log) = cut
        /\ LogIsPrefix
        /\ \A b \in 1..Len(log) : log[b].ok

\* Playback aborted after the first batch, before the second.
C7_Witness ==
    /\ pc = "aborted"
    /\ cut = 1
    /\ Len(batches) >= 2

\* C6: a run in which a Sink call failed returns to its caller something other
\* than what a run without failure returns.
C6_FailureSurfaced ==
    (pc = "done" /\ failed) => result # PlayResult(FALSE)

\* The Presses of the Chord before the last typewriter call whose delay was
\* unset.
UnsetBefore == {i \in 1..Len(last.pre) : last.pre[i].delay = None}

\* The last operation was typewriter and it returned.
Typewritten == last.op = "typewriter" /\ pc # "panicked"

\* C9: after typewriter the Chord has the Presses it had, and every Press
\* whose delay was set before the call has the delay it had; of a Chord of one
\* Press with a delay and one without, the one without is the only one
\* changed.
C9_TypewriterKeepsSetDelays ==
    last.op = "typewriter" =>
        /\ Len(keys) = Len(last.pre)
        /\ \A i \in 1..Len(keys) :
              is_some(last.pre[i].delay) => keys[i] = last.pre[i]
        /\ (Typewritten /\ Len(keys) = 2 /\ Cardinality(UnsetBefore) = 1) =>
              {i \in 1..Len(keys) : keys[i] # last.pre[i]} = UnsetBefore

\* typewriter has run on a Chord of one Press with an explicit delay and one
\* Press without, and has given the second its delay.
C9_Witness ==
    /\ Typewritten
    /\ Len(keys) = 2
    /\ last.pre[1].delay = Some(500)
    /\ last.pre[2].delay = None
    /\ keys[2].delay = Some(499)

\* The Chord ks with the Presses of its unset delays given the delays f.
Filled(ks, f) ==
    [i \in 1..Len(ks) |->
        IF ks[i].delay = None THEN [ks[i] EXCEPT !.delay = Some(f[i])] ELSE ks[i]]

\* C10: after typewriter(start..end), start < end, every Press whose delay was
\* unset has a delay of m ms, start <= m < end; and for every Chord a caller
\* has built, every way of giving each unset Press a value of the range is an
\* outcome of typewriter.
C10_TypewriterRange ==
    /\ (last.op = "typewriter" /\ last.arg.start < last.arg.end) =>
          /\ pc # "panicked"
          /\ \A i \in UnsetBefore :
                \E m \in last.arg.start .. (last.arg.end - 1) :
                    keys[i].delay = Some(m)
    /\ Building =>
          \A range \in {r \in Ranges : r.start < r.end} :
              \A f \in [{i \in 1..Len(keys) : keys[i].delay = None}
                            -> range.start .. (range.end - 1)] :
                  [keys |-> Filled(keys, f), panicked |-> FALSE]
                      \in typewriter(keys, range)

\* typewriter(499..501) has given two Presses different delays, the second
\* the smaller one.
C10_Witness ==
    /\ Typewritten
    /\ last.arg = [start |-> 499, end |-> 501]
    /\ UnsetBefore = {1, 2}
    /\ keys[1].delay = Some(500)
    /\ keys[2].delay = Some(499)

\* The events of the log from Sink call b on, in the order the Sink got them.
RECURSIVE LogEvents(_)
LogEvents(b) ==
    IF b > Len(log) THEN <<>>
    ELSE (IF log[b].ok THEN log[b].events ELSE <<>>) \o LogEvents(b + 1)

\* What a console makes of the key-downs of evs typed after `line`: a unicode
\* key is appended, Backspace deletes the last character, Enter ends the line.
RECURSIVE TypeKeys(_, _)
TypeKeys(evs, line) ==
    IF evs = <<>> THEN [line |-> line, entered |-> FALSE]
    ELSE LET e == Head(evs) IN
         IF e.action # KeyDown THEN TypeKeys(Tail(evs), line)
         ELSE IF e.code = VirtualKey(VK_ENTER)
              THEN [line |-> line, entered |-> TRUE]
         ELSE IF e.code = VirtualKey(VK_BACK)
              THEN TypeKeys(Tail(evs),
                            IF line = <<>> THEN line
                            ELSE SubSeq(line, 1, Len(line) - 1))
         ELSE TypeKeys(Tail(evs), Append(line, e.code.k))

Typed == TypeKeys(LogEvents(1), <<>>)

\* "Hello, World!"
HelloWorld == <<72, 101, 108, 108, 111, 44, 32, 87, 111, 114, 108, 100, 33>>

\* C8: in the demo the key-downs reach the Sink in the order of the Chord,
\* Enter last, and the line typed is "Hello, World!".
C8_DemoTypesHelloWorld ==
    /\ Typed.entered => Typed.line = HelloWorld
    /\ LET evs   == LogEvents(1)
           downs == SelectSeq(evs, LAMBDA e : e.action = KeyDown)
       IN  \A a, b \in 1..Len(downs) : a < b => downs[a].src < downs[b].src

\* C11: typewriter with an empty or inverted range is rejected, whatever the
\* Chord, and leaves the Chord as it was.
C11_EmptyRangeRejected ==
    (last.op = "typewriter" /\ last.arg.start >= last.arg.end) =>
        /\ pc = "panicked"
        /\ keys = last.pre

\* The Presses of the Chord that have neither delay nor duration.
Bare == {i \in 1..Len(keys) : keys[i].delay = None /\ keys[i].duration = None}

\* The Chord push_str("Hi") builds from an empty Chord.
HiChord ==
    << [code |-> [tag |-> "UnicodeKey", k |-> 72], delay |-> None, duration |-> None],
       [code |-> [tag |-> "UnicodeKey", k |-> 105], delay |-> None, duration |-> None] >>

\* C12: push_str(text) leaves the Presses of the Chord in place and appends
\* one unicode Press without delay or duration per UTF-16 code unit of text,
\* in text order (two, the surrogates D83D DE00, for U+1F600); played with no
\* typewriter call, these Presses are all in the first batch, at time zero,
\* each KeyDown right before its KeyUp, in the order of the Chord; "Hi" alone
\* gives the one batch H-down, H-up, i-down, i-up.
C12_TextExpansion ==
    /\ last.op = "push_str" =>
          LET units == encode_utf16(last.arg)
              n     == Len(last.pre)
          IN  /\ Len(keys) = n + Len(units)
              /\ \A i \in 1..n : keys[i] = last.pre[i]
              /\ \A j \in 1..Len(units) :
                    keys[n + j] = [code |-> [tag |-> "UnicodeKey", k |-> units[j]],
                                   delay |-> None, duration |-> None]
              /\ last.arg = <<128512>> => units = <<55357, 56832>>
    /\ Completed =>
          /\ \A i \in Bare :
                /\ log[1].at = 0
                /\ \E j \in 1..(Len(log[1].events) - 1) :
                      /\ log[1].events[j] = Ev(i, KeyDown)
                      /\ log[1].events[j + 1] = Ev(i, KeyUp)
          /\ \A i, j \in Bare :
                i < j => \A a, b \in 1..Len(log[1].events) :
                            (log[1].events[a].src = i /\ log[1].events[b].src = j)
                                => a < b
          /\ keys = HiChord =>
                log = << [at |-> 0,
                          events |-> << Ev(1, KeyDown), Ev(1, KeyUp),
                                        Ev(2, KeyDown), Ev(2, KeyUp) >>,
                          ok |-> TRUE] >>

\* push_str has turned U+1F600 into two Presses and they have been played.
C12_Witness ==
    /\ Completed
    /\ Len(keys) = 2
    /\ keys[1].code = UnicodeKey(55357)
    /\ keys[2].code = UnicodeKey(56832)
    /\ Len(log) = 1

\* C13: push_n(p, count) leaves the Presses of the Chord in place and appends
\* exactly count Presses, each equal to p; with count 0 the Chord is unchanged.
C13_RepeatAppend ==
    last.op = "push_n" =>
        LET n == Len(last.pre)
        IN  /\ Len(keys) = n + last.arg.count
            /\ \A i \in 1..n : keys[i] = last.pre[i]
            /\ \A j \in 1..last.arg.count : keys[n + j] = last.arg.press
            /\ last.arg.count = 0 => keys = last.pre

\* push_n has appended two copies of a Press that has a delay and a duration.
C13_Witness ==
    /\ last.op = "push_n"
    /\ last.arg.count = 2
    /\ is_some(last.arg.press.delay)
    /\ is_some(last.arg.press.duration)
    /\ Len(keys) = 2

\* C14: in every batch handed to the Sink the events stand in the insertion
\* order of their Presses: no event of a later Press precedes an event of an
\* earlier one, be they downs or ups.
C14_BatchInsertionOrder ==
    \A b \in 1..Len(log) :
        \A a, c \in 1..Len(log[b].events) :
            a < c => log[b].events[a].src <= log[b].events[c].src

\* A completed run with a batch that holds the KeyUp of the first Press, held
\* for a while, and both events of the second.
C14_Witness ==
    /\ Completed
    /\ Len(keys) = 2
    /\ DownAt(keys[1]) < UpAt(keys[1])
    /\ UpAt(keys[1]) = DownAt(keys[2])
    /\ keys[2].duration = None
    /\ Len(log[2].events) = 3

\* The lead time of the run: that of play_after, zero for play.
LeadOf == IF last.op = "play_after" THEN last.arg ELSE 0

\* C15: a run started by play_after(L) hands the Sink the batches that play
\* hands it for the same Chord, the batches of the Chord's schedule with their
\* timestamps, in order, all of them when the run completes; the playback
\* loop starts no earlier than L, and no batch is handed over before L plus
\* its timestamp has elapsed.
C15_DeferredPlayback ==
    last.op = "play_after" =>
        /\ pc \in {"playing", "done"} =>
              /\ start >= LeadOf
              /\ batches = Schedule(keys)
        /\ Len(log) <= Len(batches)
        /\ \A b \in 1..Len(log) :
              /\ log[b].at = batches[b].at
              /\ log[b].events = batches[b].events
        /\ Completed => Len(log) = Len(batches)
        /\ log # <<>> =>
              /\ clock >= LeadOf + log[Len(log)].at
              /\ clock >= start + log[Len(log)].at

\* A run of play_after(500) with two or more batches has completed.
C15_Witness ==
    /\ Completed
    /\ last.op = "play_after"
    /\ last.arg = 500
    /\ Len(log) >= 2

\* Press q is Press p with the interpretation tag `tag`: same 16-bit code,
\* same delay, same duration.
Retagged(p, q, tag) ==
    /\ q.code.tag = tag
    /\ q.code.k = p.code.k
    /\ q.delay = p.delay
    /\ q.duration = p.duration

\* C16: for the Press being built, as_unicode and as_virtual change the tag
\* and nothing else, are idempotent, return the Press itself when it has the
\* form asked for, and the later of two conversions decides the tag; a
\* conversion step leaves the Press so converted.
C16_ConversionAlgebra ==
    /\ \A i \in 1..Len(keys) :
          LET p == keys[i]
          IN  /\ Retagged(p, as_unicode(p), "UnicodeKey")
              /\ Retagged(p, as_virtual(p), "VirtualKey")
              /\ as_unicode(as_unicode(p)) = as_unicode(p)
              /\ as_virtual(as_virtual(p)) = as_virtual(p)
              /\ p.code.tag = "UnicodeKey" => as_unicode(p) = p
              /\ p.code.tag = "VirtualKey" => as_virtual(p) = p
              /\ as_unicode(as_virtual(p)) = as_unicode(p)
              /\ as_virtual(as_unicode(p)) = as_virtual(p)
    /\ last.op = "as_unicode" => Retagged(last.pre[1], keys[1], "UnicodeKey")
    /\ last.op = "as_virtual" => Retagged(last.pre[1], keys[1], "VirtualKey")

\* as_unicode has converted a virtual Enter Press that has a delay and a
\* duration.
C16_Witness ==
    /\ last.op = "as_unicode"
    /\ last.pre[1].code = VirtualKey(13)
    /\ keys[1].code = UnicodeKey(13)
    /\ is_some(keys[1].delay)
    /\ is_some(keys[1].duration)

\* C17: the batch handed to the Sink last was handed over no earlier than its
\* timestamp after the playback start; from the moment playback runs, before
\* any wait, the batches are the whole expanded, batched and sorted Chord; and
\* the Sink has received whole batches of these only, in their order, the run
\* standing between two of them.
C17_WaitsOnlyBetweenBatches ==
    /\ log # <<>> => clock >= start + log[Len(log)].at
    /\ (pc = "playing" /\ log = <<>>) => batches = Schedule(keys)
    /\ pc = "playing" => next = Len(log) + 1
    /\ Len(log) <= Len(batches)
    /\ \A b \in 1..Len(log) :
          /\ log[b].at = batches[b].at
          /\ log[b].events = batches[b].events
    /\ pc = "lead" => log = <<>> /\ batches = <<>>

\* The second batch, due 500 after the start, has been handed over on time,
\* the first wait having been a late one.
C17_Witness ==
    /\ pc = "playing"
    /\ Len(log) = 2
    /\ log[1].at = 0
    /\ log[2].at = 500
    /\ clock = start + 500
    /\ last.op = "play_after"
    /\ start = last.arg + 1

\* Every Press of the Chord has exactly one KeyDown and exactly one KeyUp in
\* the log, and the log holds nothing else.
DeliveredOnce ==
    /\ \A i \in 1..Len(keys) :
          /\ Cardinality(Places(Ev(i, KeyDown))) = 1
          /\ Cardinality(Places(Ev(i, KeyUp))) = 1
    /\ \A b \in 1..Len(log) :
          /\ log[b].events # <<>>
          /\ \A j \in 1..Len(log[b].events) :
                \E i \in 1..Len(keys), action \in {KeyDown, KeyUp} :
                    log[b].events[j] = Ev(i, action)
    /\ keys = <<>> => log = <<>>

\* C18: with an advancing clock, a Sink that never fails and no abort, a
\* playback that has started returns, and when it has returned every Press has
\* had exactly one KeyDown and one KeyUp delivered, nothing else was
\* delivered, and an empty Chord made no Sink call.
C18_PlaybackReturns ==
    /\ (pc \in {"lead", "playing"}) ~> (pc = "done")
    /\ [](pc = "done" => DeliveredOnce)

\* A two-Press Chord played after a lead time has returned after three Sink
\* calls.
C18_Witness ==
    /\ pc = "done"
    /\ Len(keys) = 2
    /\ Len(log) = 3
    /\ last.op = "play_after"

\* Place a of the log comes before place b: an earlier Sink call, or an
\* earlier position in the same call.
Before(a, b) == a[1] < b[1] \/ (a[1] = b[1] /\ a[2] < b[2])

\* C19: every KeyUp the Sink has received for a Press of the Chord comes
\* after a KeyDown of that Press, and no KeyDown of the Press comes after it;
\* a Press with duration Some(0) has both in the batch at its delay.
C19_DownBeforeUp ==
    log # <<>> =>
        \A i \in 1..Len(keys) :
            LET downs == Places(Ev(i, KeyDown))
                ups   == Places(Ev(i, KeyUp))
            IN  \A u \in ups :
                    /\ \E d \in downs : Before(d, u)
                    /\ \A d \in downs : Before(d, u)
                    /\ keys[i].duration = Some(0) =>
                          /\ log[u[1]].at = DownAt(keys[i])
                          /\ \E d \in downs : d[1] = u[1]

\* A completed run of a Chord whose first Press has duration Some(0) and whose
\* second Press has its events at the same timestamp: one batch of four
\* events.
C19_Witness ==
    /\ Completed
    /\ Len(keys) = 2
    /\ keys[1].duration = Some(0)
    /\ DownAt(keys[2]) = DownAt(keys[1])
    /\ UpAt(keys[2]) = DownAt(keys[1])
    /\ Len(log) = 1
    /\ Len(log[1].events) = 4
    /\ Places(Ev(1, KeyUp)) = {<<1, 2>>}

\* Every Press of the Chord ks has a delay set.
AllDelaysSet(ks) == \A i \in 1..Len(ks) : is_some(ks[i].delay)

\* C20: a typewriter call leaves the number and order of the Presses and
\* every Press's code and duration as they were, and changes a delay only
\* where none was set; after a call with a non-empty range every Press has a
\* delay; and on a Chord whose delays are all set a typewriter call with any
\* range, empty ones included, returns the Chord as it is.
C20_TypewriterOnlyUnsetDelays ==
    /\ last.op = "typewriter" =>
          /\ Len(keys) = Len(last.pre)
          /\ \A i \in 1..Len(keys) :
                /\ keys[i].code = last.pre[i].code
                /\ keys[i].duration = last.pre[i].duration
                /\ keys[i].delay # last.pre[i].delay => last.pre[i].delay = None
          /\ last.arg.start < last.arg.end =>
                /\ pc # "panicked"
                /\ AllDelaysSet(keys)
          /\ AllDelaysSet(last.pre) => keys = last.pre /\ pc # "panicked"
    /\ (Building /\ AllDelaysSet(keys)) =>
          \A range \in Ranges :
              typewriter(keys, range) = {[keys |-> keys, panicked |-> FALSE]}

\* A second typewriter call, with the inverted range 499..498, on a Chord of
\* two Presses of which the first call set a delay of 499: the Chord is as it
\* was and the call did not panic.
C20_Witness ==
    /\ Building
    /\ last.op = "typewriter"
    /\ last.arg.end < last.arg.start
    /\ Len(keys) = 2
    /\ AllDelaysSet(last.pre)
    /\ \E i \in 1..Len(keys) : last.pre[i].delay = Some(499)
    /\ \E i \in 1..Len(keys) : is_some(keys[i].duration)
    /\ keys = last.pre

====
